---- MODULE Spec2Model ----
(***************************************************************************)
(* Model of the transaction retry layer of trxwrap: the pgx variant        *)
(* (package trxwrap, src/db.go:1-153) and the MySQL variant (package       *)
(* database, src/db.go:155-322 and src/wrapped.go).                        *)
(*                                                                         *)
(* One behaviour of the model is one orchestrated call: an entry point is  *)
(* called, the retry loop runs its attempts, and the call returns.         *)
(*                                                                         *)
(* An error value is the chain of its layers, outermost first, as          *)
(* errors.Unwrap walks it; the nil error is the empty chain.               *)
(*                                                                         *)
(* Two functions of the layer are also run on their own, over bounded      *)
(* inputs: the loop of isReadOnlyQuery (SpecRO) and the computation of     *)
(* the backoff delays (SpecBackoff).                                       *)
(***************************************************************************)
EXTENDS Integers, Sequences, FiniteSets, TLC

VARIABLES
    variant,     \* "none", "pgx" (package trxwrap) or "mysql" (package database)
    entry,       \* the entry point that was called
    txo,         \* access mode of the transaction options ("" for statement calls)
    idempotent,  \* the idempotent argument handed to the retry loop
    attempt,     \* the loop variable of the retry loop
    pc,          \* position of the call
    txOpen,      \* a transaction is begun and neither committed nor rolled back
    pending,     \* retrier.error: the pending report (Nil when empty)
    reports,     \* what the error-reporting sink has received, in order
    result,      \* the error the call returned (meaningful once pc = "done")
    ctxDone,     \* the caller's context is cancelled or past its deadline
    calls,       \* history: number of invocations of f
    outcomes,    \* history: what each invocation of f returned, with the number
                 \* of reports sent and of errors seen when its iteration ended
    seen,        \* history: the errors the driver returned during the call
                 \* (a statement's "no rows" outcome is not counted as an error)
    nstmt,       \* history: statements of the unit of work that failed so far
    query,       \* the statement text of a wrappedPool call (Nil otherwise)
    nbegin,      \* history: transactions begun (calls of BeginTx / BeginTxx)
    nuow,        \* history: invocations of the unit of work
    ro,          \* a run of isReadOnlyQuery: its argument, the local sql, the
                 \* iterations of its loop and the value it returned
    backoff      \* the delays one call of the retry loop has slept, in order

vars == <<variant, entry, txo, idempotent, attempt, pc, txOpen, pending,
          reports, result, ctxDone, calls, outcomes, seen, nstmt, query,
          nbegin, nuow, ro, backoff>>

\* the two variables that only the function specifications change
fnVars == <<ro, backoff>>

\* Failing statements the unit of work issues through the wrapped transaction
\* in one call.
MaxStmts == 2

MAXRETRIES == 3
PgxMaxRetries == 3

----------------------------------------------------------------------------
(* Error values *)

Nil == <<>>
Layer(t, st, n) == [t |-> t, sqlstate |-> st, number |-> n]

PgError(st)    == <<Layer("PgError", st, 0)>>
MySQLError(n)  == <<Layer("MySQLError", "", n)>>
IoEOF          == <<Layer("io.EOF", "", 0)>>
IoUnexpectedEOF == <<Layer("io.ErrUnexpectedEOF", "", 0)>>
PgxErrNoRows   == <<Layer("pgx.ErrNoRows", "", 0)>>
PgxErrTxClosed == <<Layer("pgx.ErrTxClosed", "", 0)>>
PgxErrTxCommitRollback == <<Layer("pgx.ErrTxCommitRollback", "", 0)>>
SqlErrNoRows   == <<Layer("sql.ErrNoRows", "", 0)>>
ErrBadConn     == <<Layer("driver.ErrBadConn", "", 0)>>
\* a pgconn error whose SafeToRetry method returns true
SafeErr        == <<Layer("pgconn.SafeToRetry", "", 0)>>
\* an application error of the unit of work
AppErr         == <<Layer("app", "", 0)>>
\* fmt.Errorf("...: %w", err), as a unit of work may wrap an error
Wrapf(err)     == <<Layer("fmt.wrapError", "", 0)>> \o err

\* type Error struct{ parent error }, with Unwrap
Error(parent)  == <<Layer("trxwrap.Error", "", 0)>> \o parent

IsWrapped(err) == err # Nil /\ err[1].t = "trxwrap.Error"
Unwrap(err)    == Tail(err)

\* mutant: the sentinels are wrapped like every other error
wrapError_NoSentinels(err) == IF err = Nil THEN Nil ELSE Error(err)

wrapError(err) ==
    IF err = Nil THEN Nil
    ELSE IF err = PgxErrNoRows \/ err = PgxErrTxClosed \/ err = PgxErrTxCommitRollback
         THEN err
    ELSE Error(err)

\* errors.As(err, &target) for a target of the named type: the first such layer
RECURSIVE AsLayerFrom(_, _, _)
AsLayerFrom(err, t, i) ==
    IF i > Len(err) THEN 0
    ELSE IF err[i].t = t THEN i
    ELSE AsLayerFrom(err, t, i + 1)

AsLayer(err, t) == AsLayerFrom(err, t, 1)

\* errors.Is(err, target) for a sentinel of the named type
ErrorsIs(err, t) == \E i \in 1..Len(err) : err[i].t = t

\* mutant: an end of stream is not told apart from an error without a code
ToSQLState_NoEOF(err) ==
    LET i == AsLayer(err, "PgError") IN IF i # 0 THEN err[i].sqlstate ELSE ""

ToSQLState(err) ==
    IF IsWrapped(err) /\ (Unwrap(err) = IoEOF \/ Unwrap(err) = IoUnexpectedEOF)
    THEN "08Q99"
    ELSE LET i == AsLayer(err, "PgError") IN IF i # 0 THEN err[i].sqlstate ELSE ""

ToMySQLError(err) ==
    LET i == AsLayer(err, "MySQLError") IN IF i # 0 THEN err[i].number ELSE 0

\* pgconn.SafeToRetry(err): the error value itself has a SafeToRetry method
\* that returns true.
SafeToRetry(err) == err # Nil /\ err[1].t = "pgconn.SafeToRetry"

----------------------------------------------------------------------------
(* The retry decision *)

PgxAlwaysStates == {"40001", "40P01"}
PgxIfSafeStates == {"08Q99", "57P01", "57P02", "57P03", "08000", "08003",
                    "08006", "08001", "08004"}

MyAlwaysCodes == {1205, 1213, 1412, 1587, 1613, 1614, 1637, 1689, 3058}
MyIfSafeCodes == {1053, 1077, 1078, 1079}

\* mutant: a connection failure is retried whatever the commit state
PgxShouldRetry_IgnoresCommit(commitAttempted, err, idem) ==
    IF ToSQLState(err) \in PgxAlwaysStates THEN TRUE
    ELSE IF ToSQLState(err) \in PgxIfSafeStates THEN TRUE
    ELSE SafeToRetry(err)

\* mutant: a connection failure is retried only when both conditions hold
PgxShouldRetry_NeedsBoth(commitAttempted, err, idem) ==
    IF ToSQLState(err) \in PgxAlwaysStates THEN TRUE
    ELSE IF ToSQLState(err) \in PgxIfSafeStates THEN ~commitAttempted /\ idem
    ELSE SafeToRetry(err)

\* the value of the local variable retry at src/db.go:83
PgxShouldRetry(commitAttempted, err, idem) ==
    IF ToSQLState(err) \in PgxAlwaysStates THEN TRUE
    ELSE IF ToSQLState(err) \in PgxIfSafeStates THEN ~commitAttempted \/ idem
    ELSE SafeToRetry(err)

\* mutant: retry starts out true, so an error without a listed code is retried
MyShouldRetry_DefaultTrue(commitAttempted, err, idem) ==
    IF ToMySQLError(err) \in MyAlwaysCodes THEN TRUE
    ELSE IF ToMySQLError(err) \in MyIfSafeCodes THEN ~commitAttempted \/ idem
    ELSE err # Nil

\* mutant: the lock and deadlock codes fall into the connection-failure case
MyShouldRetry_AlwaysIsIfSafe(commitAttempted, err, idem) ==
    IF ToMySQLError(err) \in MyAlwaysCodes \cup MyIfSafeCodes
    THEN ~commitAttempted \/ idem
    ELSE FALSE

\* the value of the local variable retry at src/db.go:261
MyShouldRetry(commitAttempted, err, idem) ==
    IF ToMySQLError(err) \in MyAlwaysCodes THEN TRUE
    ELSE IF ToMySQLError(err) \in MyIfSafeCodes THEN ~commitAttempted \/ idem
    ELSE FALSE

\* mutant: the bound is compared with > instead of >=
PgxLastAttempt_OffByOne(a) == a > PgxMaxRetries

\* if attempt >= 3 (src/db.go:65), if attempt >= MAXRETRIES (src/db.go:237)
PgxLastAttempt(a) == a >= PgxMaxRetries
MyLastAttempt(a)  == a >= MAXRETRIES

----------------------------------------------------------------------------
(* Reporting (MySQL variant) *)

\* PendingMessage.Send at the given level; sending the empty message sends nothing
Send(reps, pend, level) ==
    IF pend = Nil THEN reps ELSE Append(reps, [level |-> level, err |-> pend])

\* mutant: the new report replaces the pending one, which is never sent
maybeReportQueryError_Overwrites(r, err) ==
    IF err = Nil \/ ErrorsIs(err, "sql.ErrNoRows") THEN r
    ELSE [reports |-> r.reports, pending |-> err]

\* retrier.maybeReportQueryError on the retrier state r = [pending, reports]
maybeReportQueryError(r, err) ==
    IF err = Nil \/ ErrorsIs(err, "sql.ErrNoRows") THEN r
    ELSE [reports |-> Send(r.reports, r.pending, "error"), pending |-> err]

----------------------------------------------------------------------------
(* Statement text: a string is the sequence of its characters *)

HasPrefix(s, p) == Len(s) >= Len(p) /\ SubSeq(s, 1, Len(p)) = p

\* strings.Index(s, c) for a one-character c: 0-based, -1 when absent
Index(s, c) ==
    LET idx == {i \in 1..Len(s) : s[i] = c}
    IN  IF idx = {} THEN -1 ELSE (CHOOSE i \in idx : \A j \in idx : i <= j) - 1

\* sql[strings.Index(sql, "\n")+1:]
SkipLine(sql) == SubSeq(sql, Index(sql, "\n") + 2, Len(sql))

\* the loop of isReadOnlyQuery never ends: an iteration leaves sql as it was
RECURSIVE isReadOnlyQueryHangs(_)
isReadOnlyQueryHangs(sql) ==
    /\ HasPrefix(sql, <<"-", "-">>)
    /\ (SkipLine(sql) = sql \/ isReadOnlyQueryHangs(SkipLine(sql)))

RECURSIVE isReadOnlyQuery(_)
isReadOnlyQuery(sql) ==
    IF HasPrefix(sql, <<"-", "-">>) THEN isReadOnlyQuery(SkipLine(sql))
    ELSE HasPrefix(sql, <<"S", "E", "L", "E", "C", "T">>)

Queries == { <<"S", "E", "L", "E", "C", "T", " ", "1">>,
             <<"U", "P", "D", "A", "T", "E", " ", "t">>,
             <<"-", "-", "c", "\n", "S", "E", "L", "E", "C", "T">>,
             <<"-", "-", "c">> }

----------------------------------------------------------------------------
(* What the driver and the unit of work may return *)

PgxDriverErrs == { Nil, PgError("40001"), PgError("40P01"), PgError("08006"),
                   PgError("23505"), IoEOF, Wrapf(IoUnexpectedEOF), PgxErrTxClosed }
PgxRunnerErrs == { Nil, AppErr, Error(PgError("40001")), Error(IoEOF), SafeErr,
                   IoEOF, Wrapf(Error(IoEOF)) }
MyDriverErrs  == { Nil, MySQLError(1205), MySQLError(1213), MySQLError(1053),
                   ErrBadConn, IoEOF }
MyStmtErrs    == { Nil, MySQLError(1205), MySQLError(1062), SqlErrNoRows }
MyRunnerErrs  == { Nil, AppErr, MySQLError(1205) }

DriverErrs == IF variant = "pgx" THEN PgxDriverErrs ELSE MyDriverErrs
RunnerErrs == IF variant = "pgx" THEN PgxRunnerErrs ELSE MyRunnerErrs

PoolEntries == {"wrappedPool.ExecContext", "wrappedPool.QueryContext",
                "wrappedPool.QueryRowContext", "wrappedPool.PrepareContext"}

----------------------------------------------------------------------------
(* The state machine *)

\* no call is in progress
Idle ==
    /\ variant = "none" /\ entry = "none" /\ txo = "" /\ idempotent = FALSE
    /\ attempt = 0 /\ pc = "idle" /\ txOpen = FALSE
    /\ pending = Nil /\ reports = <<>> /\ result = Nil
    /\ ctxDone = FALSE /\ calls = 0 /\ outcomes = <<>> /\ seen = <<>>
    /\ nstmt = 0 /\ query = Nil /\ nbegin = 0 /\ nuow = 0

NoRun == [pc |-> "none", input |-> <<>>, sql |-> <<>>, iter |-> 0, result |-> FALSE]
NoBackoff == [variant |-> "none", attempt |-> 0, waits |-> <<>>]

Init == Idle /\ ro = NoRun /\ backoff = NoBackoff

\* the retry loop is entered and f is invoked for attempt 0
Enter(v, e, mode, idem, q, first) ==
    /\ pc = "idle"
    /\ UNCHANGED fnVars
    /\ variant' = v /\ entry' = e /\ txo' = mode /\ idempotent' = idem
    /\ query' = q
    /\ attempt' = 0 /\ calls' = 1 /\ pc' = first
    /\ UNCHANGED <<txOpen, pending, reports, result, ctxDone, outcomes, seen, nstmt,
                   nbegin, nuow>>

\* mutant: only the idempotent argument counts, the access mode is ignored
TrxWrapRunTransaction_IgnoresMode(e, mode, idem) ==
    Enter("pgx", e, mode, idem, Nil, "begin")

\* TrxWrap.RunTransaction (pgx), called as entry point e
TrxWrapRunTransaction(e, mode, idem) ==
    Enter("pgx", e, mode, idem \/ mode = "read only", Nil, "begin")

TrxWrap_RunRWTransaction ==
    TrxWrapRunTransaction("TrxWrap.RunRWTransaction", "read write", FALSE)

TrxWrap_RunROTransaction ==
    TrxWrapRunTransaction("TrxWrap.RunROTransaction", "read only", TRUE)

TrxWrap_RunTransaction ==
    \E mode \in {"read write", "read only"}, idem \in BOOLEAN :
        TrxWrapRunTransaction("TrxWrap.RunTransaction", mode, idem)

\* RunTransaction (MySQL), called as entry point e; readOnly is txo.ReadOnly
MyRunTransaction(e, readOnly) ==
    Enter("mysql", e, IF readOnly THEN "read only" ELSE "read write",
          readOnly, Nil, "begin")

RunRWTransaction == MyRunTransaction("RunRWTransaction", FALSE)

RunROTransaction == MyRunTransaction("RunROTransaction", TRUE)

RunTransaction == \E readOnly \in BOOLEAN : MyRunTransaction("RunTransaction", readOnly)

\* a wrappedPool method: the idempotent argument is computed before the loop starts
PoolCall(e, q, hangs, idem) ==
    IF hangs
    THEN /\ pc = "idle"
         /\ UNCHANGED fnVars
         /\ variant' = "mysql" /\ entry' = e /\ query' = q /\ pc' = "hang"
         /\ UNCHANGED <<txo, idempotent, attempt, txOpen, pending, reports, result,
                        ctxDone, calls, outcomes, seen, nstmt, nbegin, nuow>>
    ELSE Enter("mysql", e, "", idem, q, "stmt")

\* mutant: ExecContext treats a statement that starts with SELECT as idempotent
ExecIdempotent_Select(q) == HasPrefix(q, <<"S", "E", "L", "E", "C", "T">>)

\* wrappedPool.ExecContext: the idempotent argument of r.retry is false
ExecIdempotent(q) == FALSE

ExecContext ==
    \E q \in Queries : PoolCall("wrappedPool.ExecContext", q, FALSE, ExecIdempotent(q))

QueryContext ==
    \E q \in Queries :
        PoolCall("wrappedPool.QueryContext", q, isReadOnlyQueryHangs(q),
                 ~isReadOnlyQueryHangs(q) /\ isReadOnlyQuery(q))

QueryRowContext ==
    \E q \in Queries :
        PoolCall("wrappedPool.QueryRowContext", q, isReadOnlyQueryHangs(q),
                 ~isReadOnlyQueryHangs(q) /\ isReadOnlyQuery(q))

PrepareContext == \E q \in Queries : PoolCall("wrappedPool.PrepareContext", q, FALSE, TRUE)

\* return err from the retry loop
Return(err) == pc' = "done" /\ result' = err

\* time.Sleep(...); continue
Sleep == pc' = "sleep" /\ result' = result

\* retry (pgx): the loop body after f returned (commitAttempted, err)
retry(commitAttempted, err) ==
    /\ IF PgxLastAttempt(attempt) THEN Return(err)
       ELSE IF PgxShouldRetry(commitAttempted, err, idempotent) THEN Sleep
       ELSE Return(err)
    /\ UNCHANGED <<pending, reports>>

\* retrier.retry (MySQL): the loop body after f returned (commitAttempted, err),
\* r being the retrier state f left
retrier_retry(commitAttempted, err, r) ==
    /\ pending' = Nil
    /\ IF MyLastAttempt(attempt)
       THEN reports' = Send(r.reports, r.pending, "error") /\ Return(err)
       ELSE IF MyShouldRetry(commitAttempted, err, idempotent)
       THEN reports' = Send(r.reports, r.pending, "warning") /\ Sleep
       ELSE reports' = Send(r.reports, r.pending, "error") /\ Return(err)

\* f returned (commitAttempted, err), leaving the retrier state r and the errors
\* sn seen so far: the rest of the loop iteration. The history records the
\* stage at which f returned and the error raw that the driver, or the unit of
\* work, gave at that stage.
AfterAttempt(commitAttempted, err, r, sn, stage, raw) ==
    /\ IF variant = "pgx" THEN retry(commitAttempted, err)
       ELSE retrier_retry(commitAttempted, err, r)
    /\ seen' = sn
    /\ outcomes' = Append(outcomes, [commitAttempted |-> commitAttempted, err |-> err,
                                     nreports |-> Len(reports'), nseen |-> Len(sn),
                                     stage |-> stage, raw |-> raw,
                                     nbegin |-> nbegin', nuow |-> nuow'])

R == [pending |-> pending, reports |-> reports]

\* a statement outcome that is an error: neither success nor "no rows"
IsFailure(err) == err # Nil /\ ~ErrorsIs(err, "sql.ErrNoRows")

Wrapped(err) == IF variant = "pgx" THEN wrapError(err) ELSE err

\* runTransactionOnce: BeginTx / BeginTxx returns err
BeginTx ==
    /\ pc = "begin"
    /\ UNCHANGED fnVars
    /\ nbegin' = nbegin + 1
    /\ \E err \in DriverErrs :
        IF err # Nil
        THEN /\ UNCHANGED <<txOpen, nuow>>
             /\ AfterAttempt(FALSE, Wrapped(err), R, Append(seen, err), "begin", err)
        ELSE /\ pc' = "runner" /\ txOpen' = TRUE /\ nuow' = nuow + 1
             /\ UNCHANGED <<pending, reports, result, outcomes, seen>>
    /\ UNCHANGED <<variant, entry, txo, idempotent, attempt, ctxDone, calls, nstmt, query>>

\* a statement method of wrappedTransaction (MySQL), called by the unit of work
WrappedTransactionStmt ==
    /\ pc = "runner" /\ variant = "mysql" /\ nstmt < MaxStmts
    /\ UNCHANGED fnVars
    /\ \E err \in MyStmtErrs :
        /\ pending' = maybeReportQueryError(R, err).pending
        /\ reports' = maybeReportQueryError(R, err).reports
        /\ seen' = IF IsFailure(err) THEN Append(seen, err) ELSE seen
        /\ nstmt' = IF IsFailure(err) THEN nstmt + 1 ELSE nstmt
    /\ UNCHANGED <<variant, entry, txo, idempotent, attempt, pc, txOpen, result,
                   ctxDone, calls, outcomes, query, nbegin, nuow>>

\* mutant: the error of the unit of work is wrapped like a database error
RunnerResult_Wrapped(err) == Wrapped(err)

\* runTransactionOnce: return false, err for the error of the unit of work
RunnerResult(err) == err

\* mutant: the transaction is left open when the unit of work fails
TxAfterRunnerError_NoRollback(open) == open

\* runTransactionOnce: tx.Rollback is issued when the unit of work fails
TxAfterRunnerError(open) == FALSE

\* runTransactionOnce: the unit of work returns err
RunnerReturn ==
    /\ pc = "runner"
    /\ UNCHANGED fnVars
    /\ UNCHANGED <<nbegin, nuow>>
    /\ \E err \in RunnerErrs :
        IF err # Nil
        THEN /\ AfterAttempt(FALSE, RunnerResult(err), R, seen, "runner", err)
             /\ txOpen' = TxAfterRunnerError(txOpen)
        ELSE /\ pc' = "commit"
             /\ UNCHANGED <<txOpen, pending, reports, result, outcomes, seen>>
    /\ UNCHANGED <<variant, entry, txo, idempotent, attempt, ctxDone, calls,
                   nstmt, query>>

\* mutant: a commit counts as attempted only when it succeeded
CommitAttemptedAfterCommit_OnlyOnSuccess(err) == err = Nil

\* runTransactionOnce: return true, ... once Commit was called
CommitAttemptedAfterCommit(err) == TRUE

\* runTransactionOnce: Commit returns err
Commit ==
    /\ pc = "commit"
    /\ UNCHANGED fnVars
    /\ UNCHANGED <<nbegin, nuow>>
    /\ \E err \in DriverErrs :
        AfterAttempt(CommitAttemptedAfterCommit(err), Wrapped(err), R,
                     IF err = Nil THEN seen ELSE Append(seen, err), "commit", err)
    /\ txOpen' = FALSE
    /\ UNCHANGED <<variant, entry, txo, idempotent, attempt, ctxDone, calls, nstmt, query>>

\* the closure of a wrappedPool method: the statement returns err
PoolStmt ==
    /\ pc = "stmt"
    /\ UNCHANGED fnVars
    /\ UNCHANGED <<nbegin, nuow>>
    /\ \E err \in MyStmtErrs \cup {MySQLError(1053)} :
        AfterAttempt(TRUE, err, maybeReportQueryError(R, err),
                     IF IsFailure(err) THEN Append(seen, err) ELSE seen, "stmt", err)
    /\ UNCHANGED <<variant, entry, txo, idempotent, attempt, txOpen, ctxDone, calls,
                   nstmt, query>>

\* mutant: after a failed commit the next attempt only issues the commit again
AttemptStart_ResumeCommit(e, last) ==
    IF e \in PoolEntries THEN "stmt"
    ELSE IF last.stage = "commit" THEN "commit" ELSE "begin"

\* continue: f runs from its first line, whatever the last attempt ended with
AttemptStart(e, last) == IF e \in PoolEntries THEN "stmt" ELSE "begin"

\* time.Sleep returns; attempt++ and f is invoked again
Wake ==
    /\ pc = "sleep"
    /\ UNCHANGED fnVars
    /\ attempt' = attempt + 1
    /\ calls' = calls + 1
    /\ pc' = AttemptStart(entry, outcomes[Len(outcomes)])
    /\ UNCHANGED <<variant, entry, txo, idempotent, txOpen, pending, reports, result,
                   ctxDone, outcomes, seen, nstmt, query, nbegin, nuow>>

\* the caller's context is cancelled, or its deadline passes, during the backoff
\* sleep (at any other point of the call a cancelled context only shows as an
\* error of the driver, which BeginTx and Commit range over)
Cancel ==
    /\ ~ctxDone /\ pc = "sleep"
    /\ ctxDone' = TRUE
    /\ UNCHANGED fnVars
    /\ UNCHANGED <<variant, entry, txo, idempotent, attempt, pc, txOpen, pending,
                   reports, result, calls, outcomes, seen, nstmt, query, nbegin, nuow>>

Next ==
    \/ TrxWrap_RunRWTransaction
    \/ TrxWrap_RunROTransaction
    \/ TrxWrap_RunTransaction
    \/ RunRWTransaction
    \/ RunROTransaction
    \/ RunTransaction
    \/ ExecContext
    \/ QueryContext
    \/ QueryRowContext
    \/ PrepareContext
    \/ BeginTx
    \/ WrappedTransactionStmt
    \/ RunnerReturn
    \/ Commit
    \/ PoolStmt
    \/ Wake
    \/ Cancel

Spec == Init /\ [][Next]_vars

----------------------------------------------------------------------------
(* isReadOnlyQuery, run on its own over bounded statement texts *)

\* Pieces a statement text is put together from.
MaxPieces == 3

\* the iterations of the loop are counted up to here: a loop that ends, on a
\* text of at most MaxPieces pieces, has ended before
MaxIter == MaxPieces + 1

Pieces == { <<"-", "-", "c", "\n">>, <<"-", "-">>, <<"\n">>, <<" ">>,
            <<"S", "E", "L", "E", "C", "T">>, <<"s", "e", "l", "e", "c", "t">>,
            <<"U", "P", "D", "A", "T", "E">> }

RECURSIVE TextsUpTo(_)
TextsUpTo(n) ==
    IF n = 0 THEN {<<>>}
    ELSE LET T == TextsUpTo(n - 1) IN T \cup {t \o p : t \in T, p \in Pieces}

Texts == TextsUpTo(MaxPieces)

\* isReadOnlyQuery(sql) is called
InitRO ==
    /\ Idle /\ backoff = NoBackoff
    /\ \E s \in Texts :
        ro = [pc |-> "loop", input |-> s, sql |-> s, iter |-> 0, result |-> FALSE]

\* mutant: the lower-case keyword is accepted too
StartsWithSelect_AnyCase(sql) ==
    \/ HasPrefix(sql, <<"S", "E", "L", "E", "C", "T">>)
    \/ HasPrefix(sql, <<"s", "e", "l", "e", "c", "t">>)

\* strings.HasPrefix(sql, "SELECT")
StartsWithSelect(sql) == HasPrefix(sql, <<"S", "E", "L", "E", "C", "T">>)

\* for strings.HasPrefix(sql, "--"): the condition is true, the body is entered
ROLoopTest ==
    /\ ro.pc = "loop" /\ HasPrefix(ro.sql, <<"-", "-">>)
    /\ ro' = [ro EXCEPT !.pc = "body"]
    /\ UNCHANGED <<variant, entry, txo, idempotent, attempt, pc, txOpen, pending,
                   reports, result, ctxDone, calls, outcomes, seen, nstmt, query,
                   nbegin, nuow, backoff>>

\* the body: sql = sql[strings.Index(sql, "\n")+1:], and back to the condition
ROSkipComment ==
    /\ ro.pc = "body"
    /\ ro' = [ro EXCEPT !.pc = "loop", !.sql = SkipLine(ro.sql),
                        !.iter = IF ro.iter < MaxIter THEN ro.iter + 1 ELSE ro.iter]
    /\ UNCHANGED <<variant, entry, txo, idempotent, attempt, pc, txOpen, pending,
                   reports, result, ctxDone, calls, outcomes, seen, nstmt, query,
                   nbegin, nuow, backoff>>

\* the loop condition is false: return strings.HasPrefix(sql, "SELECT")
ROReturn ==
    /\ ro.pc = "loop" /\ ~HasPrefix(ro.sql, <<"-", "-">>)
    /\ ro' = [ro EXCEPT !.pc = "returned", !.result = StartsWithSelect(ro.sql)]
    /\ UNCHANGED <<variant, entry, txo, idempotent, attempt, pc, txOpen, pending,
                   reports, result, ctxDone, calls, outcomes, seen, nstmt, query,
                   nbegin, nuow, backoff>>

NextRO ==
    \/ ROLoopTest
    \/ ROSkipComment
    \/ ROReturn

SpecRO == InitRO /\ [][NextRO]_vars

\* the function keeps running as long as it has a step to take
SpecROFair == SpecRO /\ WF_vars(NextRO)

----------------------------------------------------------------------------
(* The backoff delays of one call whose every attempt is retried *)

\* time.Millisecond, in ticks of the model's clock (nanoseconds in the code)
Millisecond == 2

RETRYWAIT == 50 * Millisecond
RETRYJITTER == 5 * Millisecond

\* time.Sleep(500 * time.Millisecond)
PgxWait(a) == 500 * Millisecond

\* mutant: the delay shrinks as the attempts go on
MyWait_Shrinks(a, jitter) == RETRYWAIT * (MAXRETRIES - a) + jitter

\* totalWait := RETRYWAIT * time.Duration(attempt+1) + jitter
MyWait(a, jitter) == RETRYWAIT * (a + 1) + jitter

InitBackoff ==
    /\ Idle /\ ro = NoRun
    /\ \E v \in {"pgx", "mysql"} :
        backoff = [variant |-> v, attempt |-> 0, waits |-> <<>>]

\* retry (pgx): the attempt is retried, the loop sleeps and continues
PgxBackoff ==
    /\ backoff.variant = "pgx" /\ ~PgxLastAttempt(backoff.attempt)
    /\ backoff' = [backoff EXCEPT !.attempt = backoff.attempt + 1,
                                  !.waits = Append(backoff.waits,
                                                   PgxWait(backoff.attempt))]
    /\ UNCHANGED <<variant, entry, txo, idempotent, attempt, pc, txOpen, pending,
                   reports, result, ctxDone, calls, outcomes, seen, nstmt, query,
                   nbegin, nuow, ro>>

\* retrier.retry (MySQL): jitter := rand.Int63n(int64(RETRYJITTER)), then the
\* loop sleeps totalWait and continues
MyBackoff ==
    /\ backoff.variant = "mysql" /\ ~MyLastAttempt(backoff.attempt)
    /\ \E jitter \in 0..(RETRYJITTER - 1) :
        backoff' = [backoff EXCEPT !.attempt = backoff.attempt + 1,
                                  !.waits = Append(backoff.waits,
                                                   MyWait(backoff.attempt, jitter))]
    /\ UNCHANGED <<variant, entry, txo, idempotent, attempt, pc, txOpen, pending,
                   reports, result, ctxDone, calls, outcomes, seen, nstmt, query,
                   nbegin, nuow, ro>>

NextBackoff ==
    \/ PgxBackoff
    \/ MyBackoff

SpecBackoff == InitBackoff /\ [][NextBackoff]_vars

----------------------------------------------------------------------------
(* Vocabulary of the properties *)

\* the retry class the switch of the retry loop gives an error
ErrClass(err) ==
    IF variant = "pgx"
    THEN LET st == ToSQLState(err)
         IN  IF st \in PgxAlwaysStates THEN "AlwaysRetryable"
             ELSE IF st \in PgxIfSafeStates THEN "RetryableIfSafe"
             ELSE "Fatal"
    ELSE LET n == ToMySQLError(err)
         IN  IF n \in MyAlwaysCodes THEN "AlwaysRetryable"
             ELSE IF n \in MyIfSafeCodes THEN "RetryableIfSafe"
             ELSE "Fatal"

Attempts == 1..Len(outcomes)

\* the call returned right after invocation i of f, with that invocation's error
ReturnedAt(i) ==
    /\ pc = "done" /\ Len(outcomes) = i /\ calls = i
    /\ result = outcomes[i].err

\* the loop went on after invocation i of f: it sleeps, or started the next one
RetriedAt(i) == calls > i \/ (Len(outcomes) = i /\ pc = "sleep")

----------------------------------------------------------------------------
(* Properties *)

\* C1: in both retry loops, an attempt that returned commitAttempted = TRUE with
\* a RetryableIfSafe error in a call that is not idempotent is the last attempt
\* of the call, and its error is what the call returns.
C1_NoRetryAfterCommitAttempted ==
    \A i \in Attempts :
        ( /\ outcomes[i].commitAttempted
          /\ ErrClass(outcomes[i].err) = "RetryableIfSafe"
          /\ ~idempotent )
        => ReturnedAt(i)

\* C1 happens: after one retry, a non-idempotent call returns the connection
\* failure of its commit.
C1_Witness ==
    /\ pc = "done" /\ ~idempotent /\ Len(outcomes) = 2
    /\ outcomes[2].commitAttempted
    /\ ErrClass(outcomes[2].err) = "RetryableIfSafe"
    /\ result = outcomes[2].err

\* C2 as stated: an error without a recognized retryable code (class Fatal) is
\* never followed by another attempt and is what the call returns.
C2_FatalNeverRetried ==
    \A i \in Attempts :
        (outcomes[i].err # Nil /\ ErrClass(outcomes[i].err) = "Fatal")
        => ReturnedAt(i)

\* C2 amended: an error without a recognized retryable code that the driver
\* does not report as safe to retry (pgconn.SafeToRetry, pgx variant) is never
\* followed by another attempt and is what the call returns; on attempt 0 that
\* makes exactly one invocation.
C2_FatalNotSafeNeverRetried ==
    \A i \in Attempts :
        ( /\ outcomes[i].err # Nil
          /\ ErrClass(outcomes[i].err) = "Fatal"
          /\ ~(variant = "pgx" /\ SafeToRetry(outcomes[i].err)) )
        => ReturnedAt(i)

\* C2 happens: an application error on attempt 0 of an idempotent call ends it
\* after one invocation.
C2_Witness ==
    /\ pc = "done" /\ calls = 1 /\ idempotent
    /\ outcomes[1].err = AppErr /\ result = AppErr

\* C3: f is invoked at most MAXRETRIES + 1 = 4 times in one call, and the call
\* returns after the invocation with index 3 with that invocation's error.
C3_AttemptBudget ==
    /\ calls <= MAXRETRIES + 1
    /\ Len(outcomes) >= MAXRETRIES + 1 => ReturnedAt(MAXRETRIES + 1)

\* C3 happens: the fourth invocation fails with a deadlock and the call returns.
C3_Witness ==
    /\ pc = "done" /\ calls = 4 /\ Len(outcomes) = 4
    /\ ErrClass(outcomes[4].err) = "AlwaysRetryable"

\* C4: a transaction run through RunRWTransaction / RunROTransaction /
\* RunTransaction that keeps failing with a transient error is executed at most
\* 3 times in total.
C4_AtMostThreeAttempts ==
    entry \notin PoolEntries => calls <= 3

\* C5: when every attempt so far failed with an AlwaysRetryable error, the call
\* has not returned before invocation MAXRETRIES + 1, whatever idempotent and
\* commitAttempted are, and once it has returned, it returned the error of the
\* last invocation.
C5_AlwaysRetryableExhaustsBudget ==
    ( /\ Len(outcomes) >= 1
      /\ \A i \in Attempts : ErrClass(outcomes[i].err) = "AlwaysRetryable" )
    => /\ \A i \in Attempts : i <= MAXRETRIES => RetriedAt(i)
       /\ pc = "done" => ReturnedAt(MAXRETRIES + 1)

\* C5 happens: four AlwaysRetryable failures, with and without a commit
\* attempted, in a call that is not idempotent; the error returned is the last
\* one and differs from the first.
C5_Witness ==
    /\ pc = "done" /\ Len(outcomes) = 4 /\ ~idempotent
    /\ \A i \in Attempts : ErrClass(outcomes[i].err) = "AlwaysRetryable"
    /\ \E i, j \in Attempts : outcomes[i].commitAttempted /\ ~outcomes[j].commitAttempted
    /\ result = outcomes[4].err /\ result # outcomes[1].err

\* C6: an attempt with index below the maximum that fails with a
\* RetryableIfSafe error, in an idempotent call or with no commit attempted, is
\* followed by the backoff sleep and another attempt, not by a return.
C6_SafeConnectionFailureRetried ==
    \A i \in Attempts :
        ( /\ i <= MAXRETRIES
          /\ ErrClass(outcomes[i].err) = "RetryableIfSafe"
          /\ (idempotent \/ ~outcomes[i].commitAttempted) )
        => RetriedAt(i)

\* C6 happens: a connection failure before any commit in a non-idempotent
\* call, and one after a commit attempt in an idempotent call, were each
\* followed by a new invocation.
C6_Witness ==
    \/ /\ ~idempotent /\ calls = 2
       /\ ErrClass(outcomes[1].err) = "RetryableIfSafe"
       /\ ~outcomes[1].commitAttempted
       /\ outcomes[1].err = Error(IoEOF)
    \/ /\ idempotent /\ calls = 2 /\ variant = "mysql"
       /\ ErrClass(outcomes[1].err) = "RetryableIfSafe"
       /\ outcomes[1].commitAttempted

ReadOnlyEntry ==
    \/ entry \in {"TrxWrap.RunROTransaction", "RunROTransaction"}
    \/ entry \in {"TrxWrap.RunTransaction", "RunTransaction"} /\ txo = "read only"

ReadWriteEntry == entry \in {"TrxWrap.RunRWTransaction", "RunRWTransaction"}

\* C7: a call of RunROTransaction, or of RunTransaction with read-only access
\* mode, runs the loop as idempotent, so a RetryableIfSafe error is retried even
\* after a commit was attempted; a call of RunRWTransaction runs it as not
\* idempotent, so such an error ends the call.
C7_ReadOnlyIsIdempotent ==
    /\ ReadOnlyEntry =>
        /\ idempotent
        /\ \A i \in Attempts :
            ( /\ i <= MAXRETRIES /\ outcomes[i].commitAttempted
              /\ ErrClass(outcomes[i].err) = "RetryableIfSafe" ) => RetriedAt(i)
    /\ ReadWriteEntry =>
        /\ ~idempotent
        /\ \A i \in Attempts :
            ( /\ outcomes[i].commitAttempted
              /\ ErrClass(outcomes[i].err) = "RetryableIfSafe" ) => ReturnedAt(i)

\* C7 happens: TrxWrap.RunTransaction, called read-only, retried a connection
\* failure of its commit.
C7_Witness ==
    /\ entry = "TrxWrap.RunTransaction" /\ txo = "read only" /\ calls = 2
    /\ outcomes[1].commitAttempted
    /\ ErrClass(outcomes[1].err) = "RetryableIfSafe"

\* the reports sent, and the errors seen, during iteration i of the loop
ReportsOf(i) ==
    SubSeq(reports, (IF i = 1 THEN 0 ELSE outcomes[i - 1].nreports) + 1,
           outcomes[i].nreports)

SeenOf(i) ==
    SubSeq(seen, (IF i = 1 THEN 0 ELSE outcomes[i - 1].nseen) + 1, outcomes[i].nseen)

\* the iteration during which error k of seen happened
AttemptOf(k) ==
    CHOOSE i \in Attempts :
        k <= outcomes[i].nseen /\ \A j \in 1..(i - 1) : k > outcomes[j].nseen

\* C8 as stated: an attempt that returns a nil error ends the call with nil at
\* once, and nothing is reported for that attempt, also when a statement of the
\* unit of work failed and the unit of work swallowed the error.
C8_NilReturnsWithoutReport ==
    \A i \in Attempts :
        outcomes[i].err = Nil
        => ReturnedAt(i) /\ result = Nil /\ ReportsOf(i) = <<>>

\* C8 amended: an attempt that returns a nil error ends the call with nil at
\* once (no backoff, no further attempt), on the final attempt too; what is
\* reported for that attempt is exactly the statement errors the unit of work
\* met and swallowed during it, each at full severity, in order: nothing when
\* no statement failed.
C8_NilReturnsReportingSwallowed ==
    \A i \in Attempts :
        outcomes[i].err = Nil
        => /\ ReturnedAt(i) /\ result = Nil
           /\ ReportsOf(i) = [k \in 1..Len(SeenOf(i)) |->
                                [level |-> "error", err |-> SeenOf(i)[k]]]

\* C8 happens: the final allowed attempt returns nil after two of its
\* statements failed and the unit of work went on.
C8_Witness ==
    /\ pc = "done" /\ Len(outcomes) = 4 /\ outcomes[4].err = Nil
    /\ Len(SeenOf(4)) = 2 /\ SeenOf(4)[1] # SeenOf(4)[2]

\* C9: once the context is cancelled during the backoff sleep, the call leaves
\* the sleep only by returning, without another invocation of f.
C9_CancelEndsBackoff ==
    [][(pc = "sleep" /\ ctxDone /\ pc' # "sleep") => (pc' = "done" /\ calls' = calls)]_vars

\* C10: when a call of the MySQL variant has returned, the reports sent are
\* exactly the errors seen during the call (statement, begin and commit errors),
\* in order; an error of an attempt that was retried is sent at warning
\* severity, an error of the final attempt at full severity.
C10_ReportsAreTheErrorsSeen ==
    (variant = "mysql" /\ pc = "done")
    => /\ Len(reports) = Len(seen)
       /\ \A k \in 1..Len(seen) :
            /\ reports[k].err = seen[k]
            /\ reports[k].level = IF AttemptOf(k) < Len(outcomes) THEN "warning"
                                  ELSE "error"

----------------------------------------------------------------------------
\* C11: when the unit of work returns a plain application error (one without
\* a database error code), the call returns that very value, not wrapped in
\* Error, and the unit of work is not invoked again: where no earlier attempt
\* got past begin, it has been invoked exactly once.
C11_AppErrorReturnedUnchanged ==
    \A i \in Attempts :
        (outcomes[i].stage = "runner" /\ outcomes[i].raw = AppErr) =>
            /\ ReturnedAt(i)
            /\ result = AppErr /\ ~IsWrapped(result)
            /\ nuow = outcomes[i].nuow
            /\ (\A j \in 1..(i - 1) : outcomes[j].stage = "begin") => nuow = 1

C11_Witness ==
    /\ variant = "pgx" /\ pc = "done" /\ Len(outcomes) = 1
    /\ outcomes[1].stage = "runner" /\ outcomes[1].raw = AppErr
    /\ result = AppErr /\ nuow = 1

----------------------------------------------------------------------------
\* the driver sentinels wrapError lets through
Sentinels == {PgxErrNoRows, PgxErrTxClosed, PgxErrTxCommitRollback}

\* what the claim says a begin or commit error d is turned into: e
WrappedAsClaimed(d, e) ==
    /\ d = Nil => e = Nil
    /\ d \in Sentinels => e = d
    /\ (d # Nil /\ d \notin Sentinels) => (IsWrapped(e) /\ Unwrap(e) = d)

\* C12 (as stated): every error the driver gives in begin or commit comes out
\* of the call as an Error wrapping it, a sentinel as itself, nil as nil.
C12_DriverErrorsWrapped ==
    \A i \in Attempts :
        outcomes[i].stage \in {"begin", "commit"} =>
            /\ WrappedAsClaimed(outcomes[i].raw, outcomes[i].err)
            /\ (pc = "done" /\ Len(outcomes) = i) => result = outcomes[i].err

\* C12 (amended): that holds of the pgx variant; the MySQL variant gives
\* the driver's begin and commit errors back as they are, never wrapped.
C12_DriverErrorsWrappedByPgxOnly ==
    \A i \in Attempts :
        outcomes[i].stage \in {"begin", "commit"} =>
            /\ variant = "pgx" => WrappedAsClaimed(outcomes[i].raw, outcomes[i].err)
            /\ variant = "mysql" => outcomes[i].err = outcomes[i].raw
            /\ (pc = "done" /\ Len(outcomes) = i) => result = outcomes[i].err

C12_Witness ==
    /\ variant = "pgx" /\ pc = "done" /\ Len(outcomes) = 2
    /\ outcomes[1].stage = "begin" /\ outcomes[1].raw = PgError("40001")
    /\ outcomes[2].stage = "commit" /\ outcomes[2].raw = PgError("23505")
    /\ result = Error(PgError("23505")) /\ Unwrap(result) = PgError("23505")

----------------------------------------------------------------------------
\* C13: the attempts of one call run one after another with at most one
\* transaction open: a transaction is open only between its begin and the
\* commit or rollback of the same attempt, so none is open when the next
\* begin is issued, while the loop sleeps, or when the call has returned, and
\* an attempt begins at most one transaction.
C13_OneTransactionAtATime ==
    /\ txOpen => pc \in {"runner", "commit"}
    /\ pc \in {"begin", "sleep", "done"} => ~txOpen
    /\ nbegin <= calls
    /\ \A i \in Attempts : outcomes[i].nbegin <= i

C13_Witness ==
    /\ pc = "begin" /\ calls = 2 /\ nbegin = 1 /\ ~txOpen
    /\ outcomes[1].stage = "runner" /\ outcomes[1].raw # Nil

----------------------------------------------------------------------------
\* the statement text without its leading comment lines: every leading line
\* that starts with "--" is removed, up to and including its newline (the whole
\* rest when the line has none)
RECURSIVE StripComments(_)
StripComments(sql) ==
    IF ~HasPrefix(sql, <<"-", "-">>) THEN sql
    ELSE IF Index(sql, "\n") = -1 THEN <<>>
    ELSE StripComments(SubSeq(sql, Index(sql, "\n") + 2, Len(sql)))

BeginsWithSelect(sql) == HasPrefix(StripComments(sql), <<"S", "E", "L", "E", "C", "T">>)

\* a wrappedPool call whose retry loop has started
InPoolCall == entry \in PoolEntries /\ pc \notin {"idle", "hang"}

\* a connection failure of the statement is retried exactly when idem
PoolRetriesIfSafe(idem) ==
    \A i \in Attempts :
        (i <= MAXRETRIES /\ ErrClass(outcomes[i].err) = "RetryableIfSafe") =>
            (RetriedAt(i) <=> idem)

\* C14 (as stated): in a wrappedPool call the idempotent flag of the loop is
\* true exactly when the call is a prepare or the text, after its leading
\* comment lines, begins with SELECT, whichever method issued it; so a
\* connection failure of a SELECT is retried by all four methods.
C14_PoolIdempotentIffSelectOrPrepare ==
    InPoolCall =>
        LET idem == entry = "wrappedPool.PrepareContext" \/ BeginsWithSelect(query)
        IN  idempotent = idem /\ PoolRetriesIfSafe(idem)

\* C14 (amended): the flag is true exactly when the call is a prepare, or a
\* QueryContext / QueryRowContext whose text begins with SELECT; ExecContext
\* is never idempotent, so a connection failure of a SELECT issued through
\* ExecContext is not retried.
C14_PoolIdempotentExceptExec ==
    InPoolCall =>
        LET idem == \/ entry = "wrappedPool.PrepareContext"
                    \/ /\ entry \in {"wrappedPool.QueryContext",
                                      "wrappedPool.QueryRowContext"}
                       /\ BeginsWithSelect(query)
        IN  idempotent = idem /\ PoolRetriesIfSafe(idem)

C14_Witness ==
    /\ entry = "wrappedPool.ExecContext" /\ BeginsWithSelect(query)
    /\ pc = "done" /\ Len(outcomes) = 1 /\ ~idempotent
    /\ ErrClass(outcomes[1].err) = "RetryableIfSafe"
    /\ result = outcomes[1].err

----------------------------------------------------------------------------
\* the invocations of the unit of work during attempt i
UowRunsIn(i) == outcomes[i].nuow - (IF i = 1 THEN 0 ELSE outcomes[i - 1].nuow)

\* C15: an attempt of a transaction reports commitAttempted = true exactly
\* when its commit was issued: a failed begin gives false and never invokes
\* the unit of work, an error of the unit of work gives false with no commit,
\* and a commit gives true whether it succeeded or failed.
C15_CommitAttemptedIffCommitIssued ==
    \A i \in Attempts :
        outcomes[i].stage \in {"begin", "runner", "commit"} =>
            /\ outcomes[i].commitAttempted <=> outcomes[i].stage = "commit"
            /\ outcomes[i].stage = "begin" => UowRunsIn(i) = 0
            /\ outcomes[i].stage \in {"runner", "commit"} => UowRunsIn(i) = 1

C15_Witness ==
    /\ Len(outcomes) = 3
    /\ outcomes[1].stage = "begin" /\ ~outcomes[1].commitAttempted
    /\ outcomes[2].stage = "runner" /\ ~outcomes[2].commitAttempted
    /\ outcomes[3].stage = "commit" /\ outcomes[3].raw # Nil
    /\ outcomes[3].commitAttempted

----------------------------------------------------------------------------
\* C16: when a commit fails with an error the loop retries, the next attempt
\* begins a new transaction and invokes the unit of work again from the
\* start: the unit of work can run more than once though every run of it
\* returned nil.
C16_RetryAfterCommitRunsUowAgain ==
    \A i \in Attempts :
        (outcomes[i].stage = "commit" /\ outcomes[i].raw # Nil /\ calls > i) =>
            IF Len(outcomes) = i
            THEN \/ pc = "begin" /\ nbegin = outcomes[i].nbegin
                                /\ nuow = outcomes[i].nuow
                 \/ /\ pc \in {"runner", "commit"}
                    /\ nbegin = outcomes[i].nbegin + 1
                    /\ nuow = outcomes[i].nuow + 1
            ELSE /\ outcomes[i + 1].nbegin = outcomes[i].nbegin + 1
                 /\ outcomes[i + 1].stage = "commit" => UowRunsIn(i + 1) = 1

C16_Witness ==
    /\ pc = "done" /\ Len(outcomes) = 2 /\ result = Nil
    /\ outcomes[1].stage = "commit" /\ outcomes[1].raw # Nil
    /\ outcomes[2].stage = "commit" /\ outcomes[2].raw = Nil
    /\ nbegin = 2 /\ nuow = 2

----------------------------------------------------------------------------
\* the loop of isReadOnlyQuery cannot leave its current text
ROStuck ==
    /\ ro.pc \in {"loop", "body"}
    /\ HasPrefix(ro.sql, <<"-", "-">>) /\ SkipLine(ro.sql) = ro.sql

\* C17: isReadOnlyQuery(s) is true exactly when s, after its leading "--"
\* comment lines are removed, begins with the upper-case SELECT: every value
\* it returns is that, each iteration keeps it, and a text on which it
\* returns nothing does not begin with SELECT after its comment lines.
C17_ReadOnlyIffSelectAfterComments ==
    /\ ro.pc = "returned" => (ro.result <=> BeginsWithSelect(ro.input))
    /\ ro.pc \in {"loop", "body"} =>
           (BeginsWithSelect(ro.sql) <=> BeginsWithSelect(ro.input))
    /\ ROStuck => ~BeginsWithSelect(ro.input)

C17_Witness ==
    /\ ro.pc = "returned" /\ ro.result /\ ro.iter = 2
    /\ ro.input = <<"-", "-", "c", "\n", "-", "-", "c", "\n",
                    "S", "E", "L", "E", "C", "T">>

----------------------------------------------------------------------------
\* C18: isReadOnlyQuery terminates on every statement text.
C18_IsReadOnlyQueryTerminates == <>(ro.pc = "returned")

----------------------------------------------------------------------------
\* C19: the delay slept before each retry (after attempt 0, 1 and 2) is
\* strictly positive, and no delay is shorter than an earlier one of the same
\* call, whatever jitter is drawn.
C19_BackoffPositiveAndMonotone ==
    /\ Len(backoff.waits) <= MAXRETRIES
    /\ \A i \in 1..Len(backoff.waits) :
        /\ backoff.waits[i] > 0
        /\ \A j \in 1..(i - 1) : backoff.waits[j] <= backoff.waits[i]

C19_Witness ==
    /\ backoff.variant = "mysql" /\ Len(backoff.waits) = 3
    /\ backoff.waits[1] = RETRYWAIT + RETRYJITTER - 1
    /\ backoff.waits[2] = 2 * RETRYWAIT
    /\ backoff.waits[3] = 3 * RETRYWAIT

----------------------------------------------------------------------------
\* the error is, or wraps at some depth, io.EOF or io.ErrUnexpectedEOF
IsEOF(err) == ErrorsIs(err, "io.EOF") \/ ErrorsIs(err, "io.ErrUnexpectedEOF")

\* the error is an Error whose parent is exactly io.EOF or io.ErrUnexpectedEOF
DirectEOF(err) == IsWrapped(err) /\ Unwrap(err) \in {IoEOF, IoUnexpectedEOF}

\* attempt i is treated as a connection failure: retried when that is safe
RetriedIfSafeAt(i) ==
    /\ ErrClass(outcomes[i].err) = "RetryableIfSafe"
    /\ i <= PgxMaxRetries =>
           (RetriedAt(i) <=> (~outcomes[i].commitAttempted \/ idempotent))

\* C20 (as stated): an attempt that fails with an error that is, or wraps at
\* any depth, an end of stream is classified as a connection failure and
\* treated as RetryableIfSafe, wherever the error came from.
C20_EOFIsRetryableIfSafe ==
    \A i \in Attempts : IsEOF(outcomes[i].err) => RetriedIfSafeAt(i)

\* C20 (amended): that holds in the pgx variant of an Error whose direct
\* parent is the end of stream (what begin and commit give for a bare end of
\* stream of the driver); an end of stream anywhere else in the chain, or in
\* the MySQL variant, has no code and is Fatal: returned at once.
C20_OnlyDirectEOFIsRetryableIfSafe ==
    \A i \in Attempts :
        IsEOF(outcomes[i].err) =>
            IF variant = "pgx" /\ DirectEOF(outcomes[i].err)
            THEN RetriedIfSafeAt(i)
            ELSE ErrClass(outcomes[i].err) = "Fatal" /\ ReturnedAt(i)

C20_Witness ==
    /\ variant = "pgx" /\ pc = "done" /\ Len(outcomes) = 3
    /\ outcomes[1].stage = "begin" /\ outcomes[1].raw = IoEOF
    /\ outcomes[1].err = Error(IoEOF)
    /\ outcomes[2].stage = "runner" /\ outcomes[2].err = Error(IoEOF)
    /\ outcomes[3].stage = "commit" /\ outcomes[3].raw = Wrapf(IoUnexpectedEOF)
    /\ result = Error(Wrapf(IoUnexpectedEOF))

====
